---------------------------- MODULE Spec2Model ----------------------------
(***************************************************************************)
(* Model of ranger/core/linemode.py: the line-mode strategies that render  *)
(* one directory entry as a title and an info string, and the registry     *)
(* that maps a mode name to its strategy.                                  *)
(*                                                                         *)
(* A Python str is a sequence of one-character strings.  A call's outcome  *)
(* is a record [tag, str, spawned]: tag "return" with the returned string, *)
(* or the name of the exception raised; spawned lists the processes the    *)
(* call started.  None is the record with isNone = TRUE.                   *)
(***************************************************************************)
EXTENDS Integers, Sequences, FiniteSets, TLC

VARIABLES
    registry,  \* mode name -> strategy instance (the registry)
    looked,    \* the outcome of the last lookup in the registry
    now,       \* the clock datetime.now() reads, in seconds of local time
    locale,    \* LC_TIME of the process, which strftime formats under
    cwd,       \* the directory whose entries are rendered
    last,      \* the last call of filetitle or infostring and its outcome
    first      \* the first call made and its outcome

vars == <<registry, looked, now, locale, cwd, last, first>>

-----------------------------------------------------------------------------
(* Bounds of the model *)

\* The clock is read at 00:00:00 and 23:59:59 of each day; it advances at most
\* MaxTicks times from 00:00:00 of the base day.
MaxTicks == 2

\* The base day, 2024-01-20 (a Saturday), in days since 1970-01-01.
BaseDay == 19723 + 19

-----------------------------------------------------------------------------
(* Python values *)

None == [isNone |-> TRUE, val |-> <<>>]

Some(s) == [isNone |-> FALSE, val |-> s]

\* bool(x) of an optional string: None and "" are false
Truthy(o) == ~o.isNone /\ Len(o.val) > 0

Return(s) == [tag |-> "return", str |-> s, spawned |-> <<>>]

Raise(e) == [tag |-> e, str |-> <<>>, spawned |-> <<>>]

DigitChars == <<"0", "1", "2", "3", "4", "5", "6", "7", "8", "9">>

\* "%d" % n, n >= 0
RECURSIVE Dec(_)
Dec(n) == IF n < 10 THEN <<DigitChars[n + 1]>>
          ELSE Dec(n \div 10) \o <<DigitChars[(n % 10) + 1]>>

\* "%02d" % n
Pad2(n) == IF n < 10 THEN <<"0">> \o Dec(n) ELSE Dec(n)

\* c in s
RECURSIVE In(_, _)
In(c, s) == IF s = <<>> THEN FALSE
            ELSE IF Head(s) = c THEN TRUE ELSE In(c, Tail(s))

\* s.find(c): the 0-based index of the first c, -1 when there is none
RECURSIVE FindFrom(_, _, _)
FindFrom(s, c, i) == IF i > Len(s) THEN -1
                     ELSE IF s[i] = c THEN i - 1 ELSE FindFrom(s, c, i + 1)

Find(s, c) == FindFrom(s, c, 1)

\* s[0:stop], a negative stop counting from the end
SliceTo(s, stop) ==
    LET n == Len(s)
        e == IF stop < 0 THEN (IF stop + n < 0 THEN 0 ELSE stop + n)
             ELSE (IF stop > n THEN n ELSE stop)
    IN  SubSeq(s, 1, e)

Whitespace == {" ", "\n", "\t", "\r"}

RECURSIVE LStrip(_)
LStrip(s) == IF s # <<>> /\ Head(s) \in Whitespace THEN LStrip(Tail(s)) ELSE s

RECURSIVE RStrip(_)
RStrip(s) == IF s # <<>> /\ s[Len(s)] \in Whitespace
             THEN RStrip(SubSeq(s, 1, Len(s) - 1)) ELSE s

\* s.strip()
Strip(s) == RStrip(LStrip(s))

\* "%<w>s" % s: right-justified in w columns, never cut
RECURSIVE RJust(_, _)
RJust(s, w) == IF Len(s) >= w THEN s ELSE RJust(<<" ">> \o s, w)

-----------------------------------------------------------------------------
(* datetime *)

\* The proleptic Gregorian date of day number z (days since 1970-01-01)
CivilFromDays(z) ==
    LET zz  == z + 719468
        era == zz \div 146097
        doe == zz - era * 146097
        yoe == (doe - (doe \div 1460) + (doe \div 36524) - (doe \div 146096)) \div 365
        doy == doe - (365 * yoe + (yoe \div 4) - (yoe \div 100))
        mp  == (5 * doy + 2) \div 153
        d   == doy - ((153 * mp + 2) \div 5) + 1
        m   == IF mp < 10 THEN mp + 3 ELSE mp - 9
        y   == yoe + era * 400 + (IF m <= 2 THEN 1 ELSE 0)
    IN  [year |-> y, month |-> m, day |-> d]

\* datetime.fromtimestamp(ts), local time, ts in seconds
FromTimestamp(ts) ==
    LET days == ts \div 86400
        secs == ts % 86400
        c    == CivilFromDays(days)
    IN  [ordinal |-> days, year |-> c.year, month |-> c.month, day |-> c.day,
         hour |-> secs \div 3600, minute |-> (secs % 3600) \div 60,
         weekday |-> (days + 4) % 7]

\* dt.date() as a day number; the difference of two is timedelta.days
DateOf(dt) == dt.ordinal

Locales == {"C", "fr_FR"}

\* %b of each locale, January first
MonthAbbr ==
    [l \in Locales |->
       IF l = "C"
       THEN << <<"J","a","n">>, <<"F","e","b">>, <<"M","a","r">>, <<"A","p","r">>,
               <<"M","a","y">>, <<"J","u","n">>, <<"J","u","l">>, <<"A","u","g">>,
               <<"S","e","p">>, <<"O","c","t">>, <<"N","o","v">>, <<"D","e","c">> >>
       ELSE << <<"j","a","n","v",".">>, <<"f","é","v","r",".">>, <<"m","a","r","s">>,
               <<"a","v","r","i","l">>, <<"m","a","i">>, <<"j","u","i","n">>,
               <<"j","u","i","l",".">>, <<"a","o","û","t">>, <<"s","e","p","t",".">>,
               <<"o","c","t",".">>, <<"n","o","v",".">>, <<"d","é","c",".">> >>]

\* %a of each locale, Sunday first
DayAbbr ==
    [l \in Locales |->
       IF l = "C"
       THEN << <<"S","u","n">>, <<"M","o","n">>, <<"T","u","e">>, <<"W","e","d">>,
               <<"T","h","u">>, <<"F","r","i">>, <<"S","a","t">> >>
       ELSE << <<"d","i","m",".">>, <<"l","u","n",".">>, <<"m","a","r",".">>,
               <<"m","e","r",".">>, <<"j","e","u",".">>, <<"v","e","n",".">>,
               <<"s","a","m",".">> >>]

\* One conversion specification of strftime, or an ordinary character
Directive(tok, dt, loc) ==
    CASE tok = "%-d" -> Dec(dt.day)
      [] tok = "%d"  -> Pad2(dt.day)
      [] tok = "%b"  -> MonthAbbr[loc][dt.month]
      [] tok = "%m"  -> Pad2(dt.month)
      [] tok = "%Y"  -> Dec(dt.year)
      [] tok = "%a"  -> DayAbbr[loc][dt.weekday + 1]
      [] tok = "%H"  -> Pad2(dt.hour)
      [] tok = "%M"  -> Pad2(dt.minute)
      [] OTHER       -> <<tok>>

\* dt.strftime(fmt) under LC_TIME = loc; fmt is the format split in directives
RECURSIVE Strftime(_, _, _)
Strftime(fmt, dt, loc) ==
    IF fmt = <<>> THEN <<>>
    ELSE Directive(Head(fmt), dt, loc) \o Strftime(Tail(fmt), dt, loc)

\* "%Y-%m-%d %H:%M"
FmtIso == <<"%Y", "-", "%m", "-", "%d", " ", "%H", ":", "%M">>

\* "%-d %b %Y"
FmtDayMonthYear == <<"%-d", " ", "%b", " ", "%Y">>

\* "%-d %b"
FmtDayMonth == <<"%-d", " ", "%b">>

\* "%a"
FmtWeekday == <<"%a">>

\* "%H:%M"
FmtTime == <<"%H", ":", "%M">>

-----------------------------------------------------------------------------
(* Collaborators outside linemode.py *)

SuffixB == <<" ", "B">>

SuffixKiB == <<" ", "K", "i", "B">>

\* ranger.ext.human_readable.human_readable(byte): "<n> B" below 1024 bytes,
\* one decimal of KiB from there on ("4.0 KiB")
human_readable(byte) ==
    IF byte < 1024 THEN Dec(byte) \o SuffixB
    ELSE Dec(byte \div 1024) \o <<".">> \o Dec(((byte % 1024) * 10) \div 1024)
         \o SuffixKiB

\* ranger.ext.spawn.check_output(argv): the process exits with env.rc having
\* written env.out; a non-zero exit status raises CalledProcessError
check_output(argv, env) ==
    IF env.rc # 0
    THEN [tag |-> "CalledProcessError", str |-> <<>>, spawned |-> <<argv>>]
    ELSE [tag |-> "return", str |-> env.out, spawned |-> <<argv>>]

-----------------------------------------------------------------------------
(* The strategies.  Each method is an operator of (fobj, metadata, env); env *)
(* holds what the call reads from its surroundings: the clock (now), LC_TIME *)
(* (locale) and the exit status and output of a process it spawns (rc, out). *)

DEFAULT_LINEMODE == "filename"

Classes == {"DefaultLinemode", "TitleLinemode", "PermissionsLinemode",
            "FileInfoLinemode", "MtimeLinemode", "SizeMtimeLinemode",
            "HumanMtimeLinemode", "SizeHumanMtimeLinemode"}

\* the class attribute name
Name(cls) ==
    CASE cls = "DefaultLinemode"        -> "filename"
      [] cls = "TitleLinemode"          -> "metatitle"
      [] cls = "PermissionsLinemode"    -> "permissions"
      [] cls = "FileInfoLinemode"       -> "fileinfo"
      [] cls = "MtimeLinemode"          -> "mtime"
      [] cls = "SizeMtimeLinemode"      -> "sizemtime"
      [] cls = "HumanMtimeLinemode"     -> "humanmtime"
      [] cls = "SizeHumanMtimeLinemode" -> "sizehumanmtime"

\* the class attribute uses_metadata
UsesMetadata(cls) == cls = "TitleLinemode"

\* the class attribute required_metadata
RequiredMetadata(cls) == IF cls = "TitleLinemode" THEN <<"title">> ELSE <<>>

\* an instance of cls with the attributes it inherits or overrides
Instance(cls) ==
    [cls |-> cls, name |-> Name(cls), uses_metadata |-> UsesMetadata(cls),
     required_metadata |-> RequiredMetadata(cls)]

\* LinemodeBase.infostring, inherited by DefaultLinemode
\* LinemodeBase.infostring returning "" as PermissionsLinemode does: C5 fails
LinemodeBase_infostring_Empty(fobj, metadata, env) == Return(<<>>)

LinemodeBase_infostring(fobj, metadata, env) == Raise("NotImplementedError")

DefaultLinemode_filetitle(fobj, metadata, env) == Return(fobj.relative_path)

\* TitleLinemode.filetitle testing 'year is not None': C7 fails for year ""
TitleLinemode_filetitle_NotNone(fobj, metadata, env) ==
    LET name == metadata.title.val
    IN  IF ~metadata.year.isNone
        THEN Return(metadata.year.val \o <<" ", "-", " ">> \o name)
        ELSE Return(name)

TitleLinemode_filetitle(fobj, metadata, env) ==
    LET name == metadata.title.val
    IN  IF Truthy(metadata.year)
        THEN Return(metadata.year.val \o <<" ", "-", " ">> \o name)
        ELSE Return(name)

\* TitleLinemode.infostring without the "',' in" test: find gives -1 and the
\* slice drops the last character: C6 fails
TitleLinemode_infostring_NoCommaTest(fobj, metadata, env) ==
    IF Truthy(metadata.authors)
    THEN LET authorstring == metadata.authors.val
         IN  Return(SliceTo(authorstring, Find(authorstring, ",")))
    ELSE Return(<<>>)

TitleLinemode_infostring(fobj, metadata, env) ==
    IF Truthy(metadata.authors)
    THEN LET authorstring == metadata.authors.val
         IN  IF In(",", authorstring)
             THEN Return(SliceTo(authorstring, Find(authorstring, ",")))
             ELSE Return(authorstring)
    ELSE Return(<<>>)

PermissionsLinemode_filetitle(fobj, metadata, env) ==
    Return(fobj.permission_string \o <<" ">> \o fobj.user \o <<" ">>
           \o fobj.group \o <<" ">> \o fobj.relative_path)

PermissionsLinemode_infostring(fobj, metadata, env) == Return(<<>>)

FileInfoLinemode_filetitle(fobj, metadata, env) == Return(fobj.relative_path)

\* FileInfoLinemode.infostring without the except clause: C4 fails
FileInfoLinemode_infostring_Propagate(fobj, metadata, env) ==
    IF ~fobj.is_directory
    THEN LET p == check_output(<<"file", "-Lb", fobj.path>>, env)
         IN  IF p.tag = "CalledProcessError" THEN p
             ELSE [p EXCEPT !.str = Strip(p.str)]
    ELSE Raise("NotImplementedError")

FileInfoLinemode_infostring(fobj, metadata, env) ==
    IF ~fobj.is_directory
    THEN LET p == check_output(<<"file", "-Lb", fobj.path>>, env)
         IN  IF p.tag = "CalledProcessError"
             THEN [p EXCEPT !.tag = "return", !.str = <<"u","n","k","n","o","w","n">>]
             ELSE [p EXCEPT !.str = Strip(p.str)]
    ELSE Raise("NotImplementedError")

MtimeLinemode_filetitle(fobj, metadata, env) == Return(fobj.relative_path)

\* MtimeLinemode.infostring formatting the clock instead of the mtime: C9 fails
MtimeLinemode_infostring_Clock(fobj, metadata, env) ==
    IF fobj.stat.isNone THEN Return(<<"?">>)
    ELSE Return(Strftime(FmtIso, FromTimestamp(env.now), env.locale))

MtimeLinemode_infostring(fobj, metadata, env) ==
    IF fobj.stat.isNone THEN Return(<<"?">>)
    ELSE Return(Strftime(FmtIso, FromTimestamp(fobj.stat.st_mtime), env.locale))

SizeMtimeLinemode_filetitle(fobj, metadata, env) == Return(fobj.relative_path)

\* SizeMtimeLinemode.infostring testing the stat after formatting the size: C3
\* fails
SizeMtimeLinemode_infostring_SizeFirst(fobj, metadata, env) ==
    Return(human_readable(fobj.size) \o <<" ">> \o
           (IF fobj.stat.isNone THEN <<"?">>
            ELSE Strftime(FmtIso, FromTimestamp(fobj.stat.st_mtime), env.locale)))

SizeMtimeLinemode_infostring(fobj, metadata, env) ==
    IF fobj.stat.isNone THEN Return(<<"?">>)
    ELSE Return(human_readable(fobj.size) \o <<" ">> \o
                Strftime(FmtIso, FromTimestamp(fobj.stat.st_mtime), env.locale))

HumanMtimeLinemode_filetitle(fobj, metadata, env) == Return(fobj.relative_path)

\* HumanMtimeLinemode.infostring with the first boundary at 365: C1 fails
HumanMtimeLinemode_infostring_OffByOne(fobj, metadata, env) ==
    IF fobj.stat.isNone THEN Return(<<"?">>)
    ELSE LET file_date == FromTimestamp(fobj.stat.st_mtime)
             days == DateOf(FromTimestamp(env.now)) - DateOf(file_date)
         IN  IF days > 365 THEN Return(Strftime(FmtDayMonthYear, file_date, env.locale))
             ELSE IF days > 6 THEN Return(Strftime(FmtDayMonth, file_date, env.locale))
             ELSE IF days >= 1 THEN Return(Strftime(FmtWeekday, file_date, env.locale))
             ELSE Return(Strftime(FmtTime, file_date, env.locale))

HumanMtimeLinemode_infostring(fobj, metadata, env) ==
    IF fobj.stat.isNone THEN Return(<<"?">>)
    ELSE LET file_date == FromTimestamp(fobj.stat.st_mtime)
             days == DateOf(FromTimestamp(env.now)) - DateOf(file_date)
         IN  IF days > 364 THEN Return(Strftime(FmtDayMonthYear, file_date, env.locale))
             ELSE IF days > 6 THEN Return(Strftime(FmtDayMonth, file_date, env.locale))
             ELSE IF days >= 1 THEN Return(Strftime(FmtWeekday, file_date, env.locale))
             ELSE Return(Strftime(FmtTime, file_date, env.locale))

SizeHumanMtimeLinemode_filetitle(fobj, metadata, env) == Return(fobj.relative_path)

\* the width of the date field in "%s %11s"
DateFieldWidth == 11

\* "%s %11s" % (size, date)
SizeAndDate(size, date) == size \o <<" ">> \o RJust(date, DateFieldWidth)

\* SizeHumanMtimeLinemode.infostring with the second boundary at 7: C10 fails
SizeHumanMtimeLinemode_infostring_Week(fobj, metadata, env) ==
    IF fobj.stat.isNone THEN Return(<<"?">>)
    ELSE LET size == human_readable(fobj.size)
             file_date == FromTimestamp(fobj.stat.st_mtime)
             days == DateOf(FromTimestamp(env.now)) - DateOf(file_date)
         IN  IF days > 364
             THEN Return(SizeAndDate(size, Strftime(FmtDayMonthYear, file_date, env.locale)))
             ELSE IF days > 7
             THEN Return(SizeAndDate(size, Strftime(FmtDayMonth, file_date, env.locale)))
             ELSE IF days >= 1
             THEN Return(SizeAndDate(size, Strftime(FmtWeekday, file_date, env.locale)))
             ELSE Return(SizeAndDate(size, Strftime(FmtTime, file_date, env.locale)))

SizeHumanMtimeLinemode_infostring(fobj, metadata, env) ==
    IF fobj.stat.isNone THEN Return(<<"?">>)
    ELSE LET size == human_readable(fobj.size)
             file_date == FromTimestamp(fobj.stat.st_mtime)
             days == DateOf(FromTimestamp(env.now)) - DateOf(file_date)
         IN  IF days > 364
             THEN Return(SizeAndDate(size, Strftime(FmtDayMonthYear, file_date, env.locale)))
             ELSE IF days > 6
             THEN Return(SizeAndDate(size, Strftime(FmtDayMonth, file_date, env.locale)))
             ELSE IF days >= 1
             THEN Return(SizeAndDate(size, Strftime(FmtWeekday, file_date, env.locale)))
             ELSE Return(SizeAndDate(size, Strftime(FmtTime, file_date, env.locale)))

-----------------------------------------------------------------------------
(* The registry: mode name -> strategy instance *)

\* register dropping the strategies registered before: C8 fails
RegistryAdd_Replace(reg, strategy) == [n \in {strategy.name} |-> strategy]

\* register(strategy): the strategy is stored under its name
RegistryAdd(reg, strategy) ==
    [n \in DOMAIN reg \cup {strategy.name} |->
       IF n = strategy.name THEN strategy ELSE reg[n]]

NoStrategy == [cls |-> "none", name |-> "", uses_metadata |-> FALSE,
               required_metadata |-> <<>>]

NoLookup == [key |-> "", tag |-> "none", strategy |-> NoStrategy]

\* lookup(name): the strategy stored under name, or UnknownModeError
LookupResult(reg, key) ==
    IF key \in DOMAIN reg
    THEN [key |-> key, tag |-> "return", strategy |-> reg[key]]
    ELSE [key |-> key, tag |-> "UnknownModeError", strategy |-> NoStrategy]

\* every strategy of linemode.py registered under its name
AllRegistered == [n \in {Name(c) : c \in Classes} |->
                    Instance(CHOOSE c \in Classes : Name(c) = n)]

\* the registry at startup: the default mode alone
DefaultRegistered == [n \in {DEFAULT_LINEMODE} |-> Instance("DefaultLinemode")]

Keys == {Name(c) : c \in Classes} \cup {"nonexistent"}

-----------------------------------------------------------------------------
(* File entries, metadata and the surroundings of a call *)

\* days of the files' mtime relative to the base day: tomorrow, the base day,
\* 6 days and 364 days before it
DayOffsets == {1, 0, -6, -364}

\* the files' time of day, in seconds: 09:05:00 and 23:59:59
DaySeconds == {32700, 86399}

Mtimes == {(BaseDay + o) * 86400 + s : o \in DayOffsets, s \in DaySeconds}

NoStat == [isNone |-> TRUE, st_mtime |-> 0]

Stat(t) == [isNone |-> FALSE, st_mtime |-> t]

Stats == {NoStat} \cup {Stat(t) : t \in Mtimes}

Sizes == {0, 4096}

Entry(d, rel, isdir, size, stat) ==
    [relative_path |-> <<rel>>, path |-> <<"/", d, "/", rel>>,
     is_directory |-> isdir, size |-> size, stat |-> stat,
     permission_string |-> IF isdir THEN <<"d","r","w","x","r","-","x","r","-","x">>
                           ELSE <<"-","r","w","-","r","-","-","r","-","-">>,
     user |-> <<"u">>, group |-> <<"g">>]

\* the entries the metadata provider knows are those named "m"
HasMetadata(fobj) == fobj.relative_path = <<"m">>

\* the directories listed: "d" holds a file of every mtime and of no stat, files
\* of both sizes, directories and two entries with metadata; "p" and "h" are
\* small
Directories == {"d", "p", "h"}

Listing(d) ==
    CASE d = "d" ->
           {Entry(d, "a", FALSE, 4096, st) : st \in Stats}
           \cup {Entry(d, "a", FALSE, 0, Stat(BaseDay * 86400 + 32700)),
                 Entry(d, "a", TRUE, 0, NoStat),
                 Entry(d, "a", TRUE, 0, Stat((BaseDay - 6) * 86400 + 86399)),
                 Entry(d, "m", FALSE, 0, NoStat),
                 Entry(d, "m", TRUE, 0, Stat((BaseDay - 364) * 86400 + 86399))}
      [] d = "p" ->
           {Entry(d, "a", FALSE, 4096, Stat(BaseDay * 86400 + 32700)),
            Entry(d, "a", TRUE, 0, NoStat),
            Entry(d, "m", FALSE, 0, NoStat)}
      [] d = "h" ->
           {Entry(d, "m", FALSE, 4096, Stat((BaseDay - 364) * 86400 + 86399))}

NoMetadata == [isNone |-> TRUE, title |-> None, year |-> None, authors |-> None]

Metadata(t, y, a) == [isNone |-> FALSE, title |-> t, year |-> y, authors |-> a]

Inception == <<"I","n","c","e","p","t","i","o","n">>

Years == {None, Some(<<>>), Some(<<"2","0","1","0">>)}

Nolan == <<"N","o","l","a","n">>

Authors == {None, Some(<<>>), Some(Nolan),
            Some(Nolan \o <<",", " ", "V","a","r","i","o","u","s">>),
            Some(<<",", " ", "X">>)}

\* the metadata the provider holds for the entries of a directory
MetaStore(d) ==
    CASE d = "d" ->
           {Metadata(Some(Inception), y, a) : y \in Years, a \in Authors}
           \cup {Metadata(None, None, None),
                 Metadata(None, Some(<<"2","0","1","0">>), Some(Nolan))}
      [] d = "p" ->
           {Metadata(None, None, Some(Nolan)),
            Metadata(Some(Inception), Some(<<"2","0","1","0">>), None)}
      [] d = "h" ->
           {Metadata(Some(Inception), Some(<<"2","0","1","0">>), Some(Nolan))}

\* what the caller passes as metadata: the entry's loaded metadata to a strategy
\* that uses metadata, when every required field is there; None to the others,
\* or, to the default strategy it falls back to, the loaded metadata that lacks
\* a required field
MetadataFor(cls, fobj) ==
    IF UsesMetadata(cls)
    THEN {m \in MetaStore(cwd) : HasMetadata(fobj) /\ Truthy(m.title)}
    ELSE {NoMetadata} \cup
         (IF cls = "DefaultLinemode" /\ HasMetadata(fobj)
          THEN {m \in MetaStore(cwd) : ~Truthy(m.title)} ELSE {})

\* the exit status and the output of the "file" command
ExitCodes == {0, 1}

Outputs == {<<"A","S","C","I","I"," ","t","e","x","t","\n">>,
            <<" ","d","a","t","a"," ">>,
            <<>>}

\* the surroundings of a call that spawns nothing
Env == [now |-> now, locale |-> locale, rc |-> 0, out |-> <<>>]

\* the surroundings of a call that may spawn one process
SpawnEnvs ==
    {[now |-> now, locale |-> locale, rc |-> 0, out |-> out] : out \in Outputs}
    \cup {[now |-> now, locale |-> locale, rc |-> rc, out |-> <<"\n">>] :
            rc \in ExitCodes \ {0}}

NoCall == [mode |-> "none", op |-> "none", fobj |-> Entry("d", "a", TRUE, 0, NoStat),
           metadata |-> NoMetadata,
           env |-> [now |-> 0, locale |-> "C", rc |-> 0, out |-> <<>>],
           res |-> Raise("none")]

\* the value of first when the first call is not recorded
Untracked == [NoCall EXCEPT !.mode = "untracked"]

-----------------------------------------------------------------------------
(* Actions *)

\* the caller holds the strategy the registry gives for the mode's name
Selected(cls) == /\ Name(cls) \in DOMAIN registry
                 /\ registry[Name(cls)].cls = cls

\* one call of a method: last is the call and its outcome, first is the first
\* call made
Invoke(cls, op, fobj, metadata, env, res) ==
    /\ Selected(cls)
    /\ last' = [mode |-> Name(cls), op |-> op, fobj |-> fobj, metadata |-> metadata,
                env |-> env, res |-> res]
    /\ first' = IF first = NoCall THEN last' ELSE first
    /\ UNCHANGED <<registry, looked, now, locale, cwd>>

DefaultFiletitle ==
    \E fobj \in Listing(cwd) : \E md \in MetadataFor("DefaultLinemode", fobj) :
        Invoke("DefaultLinemode", "filetitle", fobj, md, Env,
               DefaultLinemode_filetitle(fobj, md, Env))

DefaultInfostring ==
    \E fobj \in Listing(cwd) : \E md \in MetadataFor("DefaultLinemode", fobj) :
        Invoke("DefaultLinemode", "infostring", fobj, md, Env,
               LinemodeBase_infostring(fobj, md, Env))

TitleFiletitle ==
    \E fobj \in Listing(cwd) : \E md \in MetadataFor("TitleLinemode", fobj) :
        Invoke("TitleLinemode", "filetitle", fobj, md, Env,
               TitleLinemode_filetitle(fobj, md, Env))

TitleInfostring ==
    \E fobj \in Listing(cwd) : \E md \in MetadataFor("TitleLinemode", fobj) :
        Invoke("TitleLinemode", "infostring", fobj, md, Env,
               TitleLinemode_infostring(fobj, md, Env))

PermissionsFiletitle ==
    \E fobj \in Listing(cwd) : \E md \in MetadataFor("PermissionsLinemode", fobj) :
        Invoke("PermissionsLinemode", "filetitle", fobj, md, Env,
               PermissionsLinemode_filetitle(fobj, md, Env))

PermissionsInfostring ==
    \E fobj \in Listing(cwd) : \E md \in MetadataFor("PermissionsLinemode", fobj) :
        Invoke("PermissionsLinemode", "infostring", fobj, md, Env,
               PermissionsLinemode_infostring(fobj, md, Env))

FileInfoFiletitle ==
    \E fobj \in Listing(cwd) : \E md \in MetadataFor("FileInfoLinemode", fobj) :
        Invoke("FileInfoLinemode", "filetitle", fobj, md, Env,
               FileInfoLinemode_filetitle(fobj, md, Env))

FileInfoInfostring ==
    \E fobj \in Listing(cwd) : \E md \in MetadataFor("FileInfoLinemode", fobj) :
      \E env \in SpawnEnvs :
        Invoke("FileInfoLinemode", "infostring", fobj, md, env,
               FileInfoLinemode_infostring(fobj, md, env))

MtimeFiletitle ==
    \E fobj \in Listing(cwd) : \E md \in MetadataFor("MtimeLinemode", fobj) :
        Invoke("MtimeLinemode", "filetitle", fobj, md, Env,
               MtimeLinemode_filetitle(fobj, md, Env))

MtimeInfostring ==
    \E fobj \in Listing(cwd) : \E md \in MetadataFor("MtimeLinemode", fobj) :
        Invoke("MtimeLinemode", "infostring", fobj, md, Env,
               MtimeLinemode_infostring(fobj, md, Env))

SizeMtimeFiletitle ==
    \E fobj \in Listing(cwd) : \E md \in MetadataFor("SizeMtimeLinemode", fobj) :
        Invoke("SizeMtimeLinemode", "filetitle", fobj, md, Env,
               SizeMtimeLinemode_filetitle(fobj, md, Env))

SizeMtimeInfostring ==
    \E fobj \in Listing(cwd) : \E md \in MetadataFor("SizeMtimeLinemode", fobj) :
        Invoke("SizeMtimeLinemode", "infostring", fobj, md, Env,
               SizeMtimeLinemode_infostring(fobj, md, Env))

HumanMtimeFiletitle ==
    \E fobj \in Listing(cwd) : \E md \in MetadataFor("HumanMtimeLinemode", fobj) :
        Invoke("HumanMtimeLinemode", "filetitle", fobj, md, Env,
               HumanMtimeLinemode_filetitle(fobj, md, Env))

HumanMtimeInfostring ==
    \E fobj \in Listing(cwd) : \E md \in MetadataFor("HumanMtimeLinemode", fobj) :
        Invoke("HumanMtimeLinemode", "infostring", fobj, md, Env,
               HumanMtimeLinemode_infostring(fobj, md, Env))

SizeHumanMtimeFiletitle ==
    \E fobj \in Listing(cwd) : \E md \in MetadataFor("SizeHumanMtimeLinemode", fobj) :
        Invoke("SizeHumanMtimeLinemode", "filetitle", fobj, md, Env,
               SizeHumanMtimeLinemode_filetitle(fobj, md, Env))

SizeHumanMtimeInfostring ==
    \E fobj \in Listing(cwd) : \E md \in MetadataFor("SizeHumanMtimeLinemode", fobj) :
        Invoke("SizeHumanMtimeLinemode", "infostring", fobj, md, Env,
               SizeHumanMtimeLinemode_infostring(fobj, md, Env))

\* the number of times the clock has advanced
Ticks(t) == 2 * ((t \div 86400) - BaseDay) + (IF t % 86400 = 0 THEN 0 ELSE 1)

\* time passes: from 00:00:00 to 23:59:59, from 23:59:59 to the next day
Tick ==
    /\ Ticks(now) < MaxTicks
    /\ now' = IF now % 86400 = 0 THEN now + 86399 ELSE now + 1
    /\ UNCHANGED <<registry, looked, locale, cwd, last, first>>

Register ==
    \E cls \in Classes :
        /\ registry' = RegistryAdd(registry, Instance(cls))
        /\ UNCHANGED <<looked, now, locale, cwd, last, first>>

Lookup ==
    \E key \in Keys :
        /\ looked' = LookupResult(registry, key)
        /\ UNCHANGED <<registry, now, locale, cwd, last, first>>

-----------------------------------------------------------------------------
(* Specifications *)

\* the strategies, every one registered, called on the entries of a directory
Init ==
    /\ registry = AllRegistered
    /\ looked = NoLookup
    /\ now = BaseDay * 86400
    /\ locale \in Locales
    /\ cwd = "d"
    /\ last = NoCall
    /\ first = Untracked

Calls ==
    \/ DefaultFiletitle \/ DefaultInfostring
    \/ TitleFiletitle \/ TitleInfostring
    \/ PermissionsFiletitle \/ PermissionsInfostring
    \/ FileInfoFiletitle \/ FileInfoInfostring
    \/ MtimeFiletitle \/ MtimeInfostring
    \/ SizeMtimeFiletitle \/ SizeMtimeInfostring
    \/ HumanMtimeFiletitle \/ HumanMtimeInfostring
    \/ SizeHumanMtimeFiletitle \/ SizeHumanMtimeInfostring

Next == Calls \/ Tick

Spec == Init /\ [][Next]_vars

\* the same, on a small directory, with the first call kept beside the last
HistoryInit ==
    /\ registry = AllRegistered
    /\ looked = NoLookup
    /\ now = BaseDay * 86400
    /\ locale \in Locales
    /\ cwd = "h"
    /\ last = NoCall
    /\ first = NoCall

HistorySpec == HistoryInit /\ [][Next]_vars

\* the registry from startup on, and the default strategy looked up in it
RegistryInit ==
    /\ registry = DefaultRegistered
    /\ looked = NoLookup
    /\ now = BaseDay * 86400
    /\ locale \in Locales
    /\ cwd = "p"
    /\ last = NoCall
    /\ first = Untracked

RegistryNext == Register \/ Lookup \/ DefaultFiletitle \/ DefaultInfostring

RegistrySpec == RegistryInit /\ [][RegistryNext]_vars

-----------------------------------------------------------------------------
(* Properties *)

\* the last call was method op of the strategy registered as mode
Called(mode, op) == last.mode = mode /\ last.op = op

\* calendar days from the file's date to the date of the clock the call read
DaysDiff(call) == (call.env.now \div 86400) - (call.fobj.stat.st_mtime \div 86400)

\* the file's mtime as the call's locale formats it
FileDate(call, fmt) ==
    Strftime(fmt, FromTimestamp(call.fobj.stat.st_mtime), call.env.locale)

\* C1: humanmtime's infostring of an entry with a stat picks its format from
\* the calendar-day difference alone: 365 days and more give "D Mon YYYY", 7 to
\* 364 days "D Mon", 1 to 6 days the weekday, 0 days and less "HH:MM"
C1_HumanMtimeTiers ==
    (Called("humanmtime", "infostring") /\ ~last.fobj.stat.isNone) =>
        LET d == DaysDiff(last)
            fmt == IF d >= 365 THEN FmtDayMonthYear
                   ELSE IF d >= 7 /\ d <= 364 THEN FmtDayMonth
                   ELSE IF d >= 1 /\ d <= 6 THEN FmtWeekday
                   ELSE FmtTime
        IN  last.res = Return(FileDate(last, fmt))

\* a file dated exactly 365 days before today is shown with its year
C1_Witness ==
    /\ Called("humanmtime", "infostring")
    /\ ~last.fobj.stat.isNone
    /\ DaysDiff(last) = 365
    /\ last.env.locale = "C"
    /\ last.res.str = <<"2","1"," ","J","a","n"," ","2","0","2","3">>

\* C2: sizehumanmtime's infostring of an entry with a stat is the size, one
\* space and a date segment of exactly 11 characters
C2_DateSegmentExactly11 ==
    (Called("sizehumanmtime", "infostring") /\ ~last.fobj.stat.isNone) =>
        LET size == human_readable(last.fobj.size)
            str == last.res.str
        IN  /\ last.res.tag = "return"
            /\ Len(str) = Len(size) + 1 + 11
            /\ SubSeq(str, 1, Len(size) + 1) = size \o <<" ">>

\* C3: the infostring of mtime, sizemtime, humanmtime and sizehumanmtime of an
\* entry without a stat returns exactly "?", with no size before it
C3_NoStatQuestionMark ==
    (/\ last.mode \in {"mtime", "sizemtime", "humanmtime", "sizehumanmtime"}
     /\ last.op = "infostring"
     /\ last.fobj.stat.isNone) =>
        last.res = [tag |-> "return", str |-> <<"?">>, spawned |-> <<>>]

C3_Witness ==
    /\ Called("sizemtime", "infostring")
    /\ last.fobj.stat.isNone
    /\ last.fobj.size = 4096
    /\ last.res.str = <<"?">>

\* C4: fileinfo's infostring of a non-directory spawns "file -Lb <path>" once and
\* returns its stripped output on exit status 0 and "unknown" otherwise; of a
\* directory it spawns nothing and raises NotImplementedError
C4_FileInfoOutcome ==
    Called("fileinfo", "infostring") =>
        IF last.fobj.is_directory
        THEN /\ last.res.tag = "NotImplementedError"
             /\ last.res.spawned = <<>>
        ELSE /\ last.res.tag = "return"
             /\ last.res.spawned = << <<"file", "-Lb", last.fobj.path>> >>
             /\ last.env.rc # 0 => last.res.str = <<"u","n","k","n","o","w","n">>
             /\ last.env.rc = 0 =>
                  /\ last.res.str = Strip(last.env.out)
                  /\ last.res.str = <<>> \/
                       (Head(last.res.str) \notin Whitespace /\
                        last.res.str[Len(last.res.str)] \notin Whitespace)
                  /\ last.env.out = <<"A","S","C","I","I"," ","t","e","x","t","\n">>
                       => last.res.str = <<"A","S","C","I","I"," ","t","e","x","t">>

C4_Witness ==
    /\ Called("fileinfo", "infostring")
    /\ ~last.fobj.is_directory
    /\ last.env.rc = 1
    /\ last.res.tag = "return"
    /\ last.res.str = <<"u","n","k","n","o","w","n">>

\* C5: looking up "filename" always succeeds and gives the default strategy,
\* whose filetitle is the entry's relative path and whose infostring raises
\* NotImplementedError for every entry and metadata
C5_DefaultMode ==
    /\ LookupResult(registry, DEFAULT_LINEMODE).tag = "return"
    /\ LookupResult(registry, DEFAULT_LINEMODE).strategy.cls = "DefaultLinemode"
    /\ looked.key = "filename" =>
         looked.tag = "return" /\ looked.strategy.cls = "DefaultLinemode"
    /\ Called("filename", "filetitle") =>
         last.res = [tag |-> "return", str |-> last.fobj.relative_path,
                     spawned |-> <<>>]
    /\ Called("filename", "infostring") =>
         last.res = [tag |-> "NotImplementedError", str |-> <<>>, spawned |-> <<>>]

C5_Witness ==
    /\ looked.key = "filename"
    /\ looked.tag = "return"
    /\ Cardinality(DOMAIN registry) > 1
    /\ Called("filename", "infostring")
    /\ ~last.metadata.isNone
    /\ last.res.tag = "NotImplementedError"

\* the authors string has a comma
HasComma(a) == \E k \in 1..Len(a) : a[k] = ","

\* s is the part of a before its first comma
BeforeFirstComma(s, a) ==
    \E k \in 1..Len(a) : /\ a[k] = ","
                         /\ \A j \in 1..(k - 1) : a[j] # ","
                         /\ s = SubSeq(a, 1, k - 1)

\* C6: metatitle's infostring is "" when authors is absent or empty, the whole
\* authors string when it has no comma, and otherwise the part before its first
\* comma: a prefix of authors without a comma
C6_FirstAuthor ==
    Called("metatitle", "infostring") =>
        LET a == last.metadata.authors
            s == last.res.str
        IN  /\ last.res.tag = "return"
            /\ (a.isNone \/ a.val = <<>>) => s = <<>>
            /\ (~a.isNone /\ a.val # <<>> /\ ~HasComma(a.val)) => s = a.val
            /\ (~a.isNone /\ HasComma(a.val)) => BeforeFirstComma(s, a.val)
            /\ ~HasComma(s)
            /\ ~a.isNone => (Len(s) <= Len(a.val) /\ s = SubSeq(a.val, 1, Len(s)))

C6_Witness ==
    /\ Called("metatitle", "infostring")
    /\ last.metadata.authors =
         Some(<<"N","o","l","a","n",","," ","V","a","r","i","o","u","s">>)
    /\ last.res.str = <<"N","o","l","a","n">>

\* C7: metatitle's filetitle is "<year> - <title>" exactly when year is present
\* and non-empty, and the title alone otherwise, whatever the entry is
C7_YearAndTitle ==
    Called("metatitle", "filetitle") =>
        LET y == last.metadata.year
            t == last.metadata.title.val
        IN  last.res = [tag |-> "return",
                        str |-> IF ~y.isNone /\ y.val # <<>>
                                THEN y.val \o <<" ", "-", " ">> \o t ELSE t,
                        spawned |-> <<>>]

C7_Witness ==
    /\ Called("metatitle", "filetitle")
    /\ last.metadata.year = Some(<<"2","0","1","0">>)
    /\ last.res.str = <<"2","0","1","0"," ","-"," ","I","n","c","e","p","t","i","o","n">>

\* C8: no step removes or changes an entry of the registry and every entry is
\* stored under its strategy's name; a lookup leaves the registry as it is,
\* returns the strategy stored under the key when there is one, and fails with
\* UnknownModeError when there is none
C8_RegistryLookup ==
    [][/\ DOMAIN registry \subseteq DOMAIN registry'
       /\ \A n \in DOMAIN registry : registry'[n] = registry[n]
       /\ \A n \in DOMAIN registry' : registry'[n].name = n
       /\ looked' # looked =>
            /\ registry' = registry
            /\ IF looked'.key \in DOMAIN registry
               THEN /\ looked'.tag = "return"
                    /\ looked'.strategy = registry[looked'.key]
                    /\ looked'.strategy.name = looked'.key
               ELSE looked'.tag = "UnknownModeError"]_vars

C8_Witness ==
    /\ looked.key = "nonexistent"
    /\ looked.tag = "UnknownModeError"
    /\ "mtime" \in DOMAIN registry
    /\ registry["mtime"].cls = "MtimeLinemode"

\* the first call and the last are the same method on the same inputs
SameInputs ==
    /\ first.mode \notin {"none", "untracked"}
    /\ last.mode = first.mode
    /\ last.op = first.op
    /\ last.fobj = first.fobj
    /\ last.metadata = first.metadata

\* no call changed a strategy's name, uses_metadata or required_metadata
AttributesKept == \A n \in DOMAIN registry : registry[n] = Instance(registry[n].cls)

\* C9 as stated: two calls of a strategy other than fileinfo with the same
\* inputs return the same result whenever each is made, and no call changes a
\* strategy's attributes
C9_SameInputsSameResult ==
    /\ (SameInputs /\ last.mode # "fileinfo") => last.res = first.res
    /\ AttributesKept

\* the call reads the clock: the infostring of humanmtime or sizehumanmtime
ReadsClock(call) ==
    call.mode \in {"humanmtime", "sizehumanmtime"} /\ call.op = "infostring"

\* C9 as amended: two calls of a strategy other than fileinfo with the same
\* inputs return the same result, provided, for the infostring of humanmtime
\* and sizehumanmtime, that both are made on the same calendar date; no call
\* changes a strategy's attributes
C9_SameInputsSameDateSameResult ==
    /\ (/\ SameInputs
        /\ last.mode # "fileinfo"
        /\ ReadsClock(last) =>
             (last.env.now \div 86400) = (first.env.now \div 86400))
       => last.res = first.res
    /\ AttributesKept

C9_Witness ==
    /\ SameInputs
    /\ ReadsClock(last)
    /\ ~last.fobj.stat.isNone
    /\ last.env.now > first.env.now
    /\ (last.env.now \div 86400) = (first.env.now \div 86400)
    /\ last.res = first.res

\* C10: sizehumanmtime's infostring of an entry with a stat is the size, one
\* space and humanmtime's infostring of the same entry at the same time,
\* right-justified in 11 characters
C10_SameTiering ==
    (Called("sizehumanmtime", "infostring") /\ ~last.fobj.stat.isNone) =>
        LET human == HumanMtimeLinemode_infostring(last.fobj, last.metadata, last.env)
            pad == [i \in 1..(11 - Len(human.str)) |-> " "]
        IN  /\ human.tag = "return"
            /\ last.res = Return(human_readable(last.fobj.size) \o <<" ">>
                                 \o pad \o human.str)

\* at the boundary of 7 days both give day and month
C10_Witness ==
    /\ Called("sizehumanmtime", "infostring")
    /\ ~last.fobj.stat.isNone
    /\ DaysDiff(last) = 7
    /\ last.env.locale = "C"
    /\ last.res.str = <<"4",".","0"," ","K","i","B"," ",
                        " "," "," "," "," ","1","4"," ","J","a","n">>

=============================================================================
